---- MODULE Spec2Model ----
(***************************************************************************)
(* The projection engine of the SaaS income calculator (src/src/App.tsx):  *)
(* calculateProjections, the month-by-month simulation, followed by        *)
(* calculateBusinessMetrics on the records it returns.                     *)
(*                                                                         *)
(* Numbers.  The program computes in IEEE doubles.  Here a finite number   *)
(* is an exact rational [n |-> numerator, d |-> denominator > 0] in lowest *)
(* terms, and the metrics, where the program can divide by zero, carry a   *)
(* tag: "num", "nan", "inf" or "ninf".  Customer counts are integers, as   *)
(* they are in the program for every integer acquisition volume.  The      *)
(* churn rates drawn below (0, 5, 10, 25, 100) give the same floor in      *)
(* doubles as in exact arithmetic.                                         *)
(*                                                                         *)
(* The loop of calculateProjections is one action per iteration.  The      *)
(* first MaxMonths iterations of a call are explored: a call with          *)
(* months <= MaxMonths runs to its return and on to the metrics, the call  *)
(* with months = 60 (the only horizon the application uses) is followed    *)
(* for its first MaxMonths months.                                         *)
(*                                                                         *)
(* Three specifications share the variables.  Spec follows one call of     *)
(* calculateProjections and the metrics of its records.  SpecDirect is a   *)
(* call of calculateBusinessMetrics with a payment that need not be whole. *)
(* SpecUI is the SaaSCalculator component: its state, the handlers of its  *)
(* controls and its effect, which recomputes the projections (the first    *)
(* MaxMonths records of the 60-month call) and the metrics.                *)
(***************************************************************************)
EXTENDS Integers, Sequences, FiniteSets

\* ------------------------------------------------------------------ bounds

\* Iterations of the loop that are explored, and the largest horizon of a
\* call that is run to completion.
MaxMonths == 3

\* months: number = 60, the default horizon, the one the application uses.
DefaultMonths == 60

\* The component is followed for MaxEdits edits, with at most MaxPlans
\* plans, while Date.now() advances at most MaxClock times.
MaxEdits == 4

MaxPlans == 2

MaxClock == 1

\* Payments of a direct call of calculateBusinessMetrics are the
\* thousandths 0/1000 .. MaxMilli/1000.
MaxMilli == 60

\* --------------------------------------------------------- exact rationals

Abs(x) == IF x < 0 THEN -x ELSE x

RECURSIVE Gcd(_, _)
Gcd(a, b) == IF b = 0 THEN a ELSE Gcd(b, a % b)

\* The rational n/d (d # 0) in lowest terms with a positive denominator.
Q(n, d) ==
    LET g == Gcd(Abs(n), Abs(d))
        s == IF d < 0 THEN -1 ELSE 1
    IN  [n |-> (s * n) \div g, d |-> (s * d) \div g]

QInt(i) == [n |-> i, d |-> 1]

QZero == QInt(0)

QAdd(a, b) ==
    LET g == Gcd(a.d, b.d)
    IN  Q(a.n * (b.d \div g) + b.n * (a.d \div g), (a.d \div g) * b.d)

QNeg(a) == [n |-> -a.n, d |-> a.d]

QSub(a, b) == QAdd(a, QNeg(b))

QMul(a, b) ==
    LET g1 == Gcd(Abs(a.n), b.d)
        g2 == Gcd(Abs(b.n), a.d)
    IN  Q((a.n \div g1) * (b.n \div g2), (a.d \div g2) * (b.d \div g1))

\* a / b for b # 0.
QDiv(a, b) == QMul(a, Q(b.d, b.n))

\* Math.floor, Math.ceil and Math.round of a finite number.  Math.round
\* rounds to the nearest integer, a half towards +Infinity: floor(x + 0.5).
MathFloor(a) == a.n \div a.d

MathCeil(a) == -((-a.n) \div a.d)

MathRound(a) ==
    LET f == a.n \div a.d
        r == a.n % a.d
    IN  IF r >= a.d - r THEN f + 1 ELSE f

\* ----------------------------------------------------------- configuration

\* customersPerMonth: number | null.  null is the empty sequence, the number
\* v is <<v>>.
Null == <<>>

Some(v) == <<v>>

\* Plan (name and id play no part in the computation).
Plan(price, probability) == [price |-> price, probability |-> probability]

\* The plan lists drawn: none, the plan addPlan creates (price 0,
\* probability 0), probabilities summing to 100 (two lists), to 0 with
\* prices set, and to 3 (not normalised).
PlanLists ==
    { <<>>,
      << Plan(0, 0) >>,
      << Plan(20, 50), Plan(100, 50) >>,
      << Plan(10, 70), Plan(30, 20), Plan(100, 10) >>,
      << Plan(49, 0), Plan(99, 0) >>,
      << Plan(10, 1), Plan(20, 2) >> }

\* The state useState is initialised with, and the arguments the effect
\* passes with it.
DefaultState ==
    [ targetIncome |-> 10000, avgMonthlyRevenue |-> 50, plans |-> <<>>,
      churnRate |-> 10, cac |-> 100, expansionRate |-> 5,
      supportCost |-> 2, infraCost |-> 3, customersPerMonth |-> Null,
      months |-> DefaultMonths ]

\* The arguments the application can pass: the sliders' and the churn
\* selector's values, the three fixed rates, the default horizon.
ScreenConfigs ==
    [ targetIncome : {1000, 10000},
      avgMonthlyRevenue : {50},
      plans : PlanLists,
      churnRate : {5, 10, 25},
      cac : {0, 100},
      expansionRate : {5},
      supportCost : {2},
      infraCost : {3},
      customersPerMonth : {Null, Some(50)},
      months : {DefaultMonths} ]

\* Arguments of calls with a short horizon, which run to their return:
\* small amounts, the degenerate values (0, 100) included.
SmallConfigs ==
    [ targetIncome : {100, 200},
      avgMonthlyRevenue : {0, 30, 50},
      plans : PlanLists,
      churnRate : {0, 10, 25, 100},
      cac : {0, 50, 100},
      expansionRate : {0, 5},
      supportCost : {2},
      infraCost : {3},
      customersPerMonth : {Null, Some(1), Some(7)},
      months : 1..MaxMonths ]

\* The arguments of a call of calculateProjections.
Configs == SmallConfigs \cup ScreenConfigs

\* ------------------------------------------------- calculateProjections

\* Math.floor in the place of Math.ceil.
CustomersNeededPerMonth_Floor(customersPerMonth, avgMonthlyRevenue, targetIncome) ==
    IF customersPerMonth # Null
    THEN customersPerMonth[1]
    ELSE IF avgMonthlyRevenue > 0
         THEN MathFloor(Q(targetIncome, avgMonthlyRevenue))
         ELSE 0

\* The fallback for a payment of 0 taken as one customer per unit of
\* target instead of none.
CustomersNeededPerMonth_NoZero(customersPerMonth, avgMonthlyRevenue, targetIncome) ==
    IF customersPerMonth # Null
    THEN customersPerMonth[1]
    ELSE IF avgMonthlyRevenue > 0
         THEN MathCeil(Q(targetIncome, avgMonthlyRevenue))
         ELSE targetIncome

\* const customersNeededPerMonth = customersPerMonth !== null
\*   ? customersPerMonth
\*   : avgMonthlyRevenue > 0 ? Math.ceil(targetIncome / avgMonthlyRevenue) : 0;
CustomersNeededPerMonth(customersPerMonth, avgMonthlyRevenue, targetIncome) ==
    IF customersPerMonth # Null
    THEN customersPerMonth[1]
    ELSE IF avgMonthlyRevenue > 0
         THEN MathCeil(Q(targetIncome, avgMonthlyRevenue))
         ELSE 0

\* The loop test written month < months.
LoopCond_Strict(month, months) == month < months

\* The loop test: month <= months.
LoopCond(month, months) == month <= months

\* The churn rate divided by 10 instead of 100.
ChurnedThisMonth_Tenth(activeCustomers, churnRate) ==
    MathFloor(QMul(QInt(activeCustomers), Q(churnRate, 10)))

\* Math.floor(activeCustomers * (churnRate / 100))
ChurnedThisMonth(activeCustomers, churnRate) ==
    MathFloor(QMul(QInt(activeCustomers), Q(churnRate, 100)))

\* The churned customers not taken out of the pool.
ActiveAfterChurn_Kept(activeCustomers, churnedThisMonth) == activeCustomers

\* The churned customers taken off twice.
ActiveAfterChurn_Twice(activeCustomers, churnedThisMonth) ==
    activeCustomers - 2 * churnedThisMonth

\* activeCustomers -= churnedThisMonth
ActiveAfterChurn(activeCustomers, churnedThisMonth) ==
    activeCustomers - churnedThisMonth

\* plans.reduce((sum, p) => sum + p.probability, 0)
RECURSIVE TotalProb(_)
TotalProb(plans) ==
    IF plans = <<>> THEN 0
    ELSE TotalProb(SubSeq(plans, 1, Len(plans) - 1)) + plans[Len(plans)].probability

\* A total probability of 0 giving each plan full weight.
NormalizedProb_One(probability, totalProb) ==
    IF totalProb > 0 THEN Q(probability, totalProb) ELSE QInt(1)

\* totalProb > 0 ? plan.probability / totalProb : 0
NormalizedProb(probability, totalProb) ==
    IF totalProb > 0 THEN Q(probability, totalProb) ELSE QZero

\* plans.reduce((sum, plan) =>
\*   sum + (plan.price * normalizedProb * activeCustomers), 0)
RECURSIVE TieredRevenue(_, _, _)
TieredRevenue(plans, totalProb, activeCustomers) ==
    IF plans = <<>> THEN QZero
    ELSE LET plan == plans[Len(plans)]
             normalizedProb == NormalizedProb(plan.probability, totalProb)
         IN  QAdd(TieredRevenue(SubSeq(plans, 1, Len(plans) - 1), totalProb,
                                activeCustomers),
                  QMul(QMul(QInt(plan.price), normalizedProb),
                       QInt(activeCustomers)))

\* The flat payment added to the tiered revenue.
BaseMonthlyRevenue_PlusFlat(plans, avgMonthlyRevenue, activeCustomers) ==
    IF Len(plans) > 0
    THEN QAdd(TieredRevenue(plans, TotalProb(plans), activeCustomers),
              QInt(activeCustomers * avgMonthlyRevenue))
    ELSE QInt(activeCustomers * avgMonthlyRevenue)

\* baseMonthlyRevenue: tiered when there are plans, else
\* activeCustomers * avgMonthlyRevenue.
BaseMonthlyRevenue(plans, avgMonthlyRevenue, activeCustomers) ==
    IF Len(plans) > 0
    THEN TieredRevenue(plans, TotalProb(plans), activeCustomers)
    ELSE QInt(activeCustomers * avgMonthlyRevenue)

\* The expansion rate divided by 10 instead of 100.
ExpansionRevenueAmount_Tenth(previousMrr, expansionRate) ==
    QMul(previousMrr, Q(expansionRate, 10))

\* The expansion taken from the rounded revenue of the month before.
ExpansionRevenueAmount_FromRounded(previousMrr, expansionRate) ==
    QMul(QInt(MathRound(previousMrr)), Q(expansionRate, 100))

\* previousMrr * (expansionRate / 100)
ExpansionRevenueAmount(previousMrr, expansionRate) ==
    QMul(previousMrr, Q(expansionRate, 100))

\* The infrastructure costs left out of the total.
TotalOperatingCosts_NoInfra(activeCustomers, supportCost, infraCost, acquisitionCost) ==
    activeCustomers * supportCost + acquisitionCost

\* supportCosts + infraCosts + acquisitionCost
TotalOperatingCosts(activeCustomers, supportCost, infraCost, acquisitionCost) ==
    activeCustomers * supportCost + activeCustomers * infraCost + acquisitionCost

\* The record pushed for a month: the money fields rounded as it is built.
MonthData(month, cumulativeRevenue, totalCustomers, monthlyRevenue, churnedThisMonth, cumulativeNetRevenue, expansionRevenueAmount, totalOperatingCosts, cumulativeProfit) ==
    [ month |-> month,
      revenue |-> MathRound(cumulativeRevenue),
      customers |-> totalCustomers,
      mrr |-> MathRound(monthlyRevenue),
      churnedCustomers |-> churnedThisMonth,
      netRevenue |-> MathRound(cumulativeNetRevenue),
      expansionRevenue |-> MathRound(expansionRevenueAmount),
      operatingCosts |-> MathRound(QInt(totalOperatingCosts)),
      profit |-> MathRound(cumulativeProfit) ]

\* One iteration of the loop body on the locals s of a call with arguments
\* a: the locals after it, the record pushed, month incremented.
LoopBody(a, s) ==
    LET totalCustomers == s.totalCustomers + s.customersNeededPerMonth
        pool == s.activeCustomers + s.customersNeededPerMonth
        churnedThisMonth == ChurnedThisMonth(pool, a.churnRate)
        activeCustomers == ActiveAfterChurn(pool, churnedThisMonth)
        baseMonthlyRevenue ==
            BaseMonthlyRevenue(a.plans, a.avgMonthlyRevenue, activeCustomers)
        expansionRevenueAmount ==
            ExpansionRevenueAmount(s.previousMrr, a.expansionRate)
        monthlyRevenue == QAdd(baseMonthlyRevenue, expansionRevenueAmount)
        acquisitionCost == s.customersNeededPerMonth * a.cac
        totalOperatingCosts ==
            TotalOperatingCosts(activeCustomers, a.supportCost, a.infraCost,
                                acquisitionCost)
        netMonthlyRevenue == QSub(monthlyRevenue, QInt(acquisitionCost))
        monthlyProfit == QSub(monthlyRevenue, QInt(totalOperatingCosts))
        cumulativeRevenue == QAdd(s.cumulativeRevenue, monthlyRevenue)
        cumulativeNetRevenue == QAdd(s.cumulativeNetRevenue, netMonthlyRevenue)
        cumulativeProfit == QAdd(s.cumulativeProfit, monthlyProfit)
    IN  [ customersNeededPerMonth |-> s.customersNeededPerMonth,
          totalCustomers |-> totalCustomers,
          activeCustomers |-> activeCustomers,
          cumulativeRevenue |-> cumulativeRevenue,
          cumulativeNetRevenue |-> cumulativeNetRevenue,
          cumulativeProfit |-> cumulativeProfit,
          previousMrr |-> monthlyRevenue,
          churnedThisMonth |-> churnedThisMonth,
          baseMonthlyRevenue |-> baseMonthlyRevenue,
          expansionRevenueAmount |-> expansionRevenueAmount,
          monthlyRevenue |-> monthlyRevenue,
          data |-> Append(s.data,
                     MonthData(s.month, cumulativeRevenue, totalCustomers,
                               monthlyRevenue, churnedThisMonth,
                               cumulativeNetRevenue, expansionRevenueAmount,
                               totalOperatingCosts, cumulativeProfit)),
          month |-> s.month + 1 ]

\* The locals on reaching the loop for the first time.  The four values of
\* an iteration's own consts are 0 before the first iteration.
EntryLocals(a) ==
    [ customersNeededPerMonth |->
          CustomersNeededPerMonth(a.customersPerMonth, a.avgMonthlyRevenue,
                                  a.targetIncome),
      totalCustomers |-> 0,
      activeCustomers |-> 0,
      cumulativeRevenue |-> QZero,
      cumulativeNetRevenue |-> QZero,
      cumulativeProfit |-> QZero,
      previousMrr |-> QZero,
      churnedThisMonth |-> 0,
      baseMonthlyRevenue |-> QZero,
      expansionRevenueAmount |-> QZero,
      monthlyRevenue |-> QZero,
      data |-> <<>>,
      month |-> 1 ]

\* The loop run from the locals s to its end (the iterations followed).
RECURSIVE LoopFrom(_, _)
LoopFrom(a, s) ==
    IF LoopCond(s.month, a.months) /\ s.month <= MaxMonths
    THEN LoopFrom(a, LoopBody(a, s))
    ELSE s

\* calculateProjections(...): the records returned.
CalculateProjections(a) == LoopFrom(a, EntryLocals(a)).data

\* --------------------------------------------- calculateBusinessMetrics

\* A number that may not be finite: the quotient a / b of two finite
\* numbers as the program's division gives it, b = 0 included.
TNum(q) == [k |-> "num", q |-> q]

TNaN == [k |-> "nan", q |-> QZero]

TInf == [k |-> "inf", q |-> QZero]

TNegInf == [k |-> "ninf", q |-> QZero]

TDiv(a, b) ==
    IF b.n # 0 THEN TNum(QDiv(a, b))
    ELSE IF a.n = 0 THEN TNaN
    ELSE IF a.n > 0 THEN TInf
    ELSE TNegInf

\* t * q and t / q for a finite q > 0: NaN and the infinities are kept.
TScale(t, q) == IF t.k = "num" THEN TNum(QMul(t.q, q)) ELSE t

\* Math.round(x * 10) / 10, the whole part of x taken out before the
\* multiplication: x = f + r / d gives round(10 x) = 10 f + round(10 r / d).
Round1(q) ==
    LET f == q.n \div q.d
        r == q.n % q.d
    IN  Q(10 * f + MathRound(Q(10 * r, q.d)), 10)

\* a/b <= c/d for a, c >= 0 and b, d > 0, compared through the whole
\* parts and then the reciprocals of the fractional parts, so that no
\* product is formed.
RECURSIVE FracLeq(_, _, _, _)
FracLeq(a, b, c, d) ==
    IF a \div b # c \div d THEN a \div b < c \div d
    ELSE IF a % b = 0 THEN TRUE
    ELSE IF c % d = 0 THEN FALSE
    ELSE FracLeq(d, c % d, b, a % b)

\* r/d + s/e >= k/2 for fractional parts r/d and s/e in [0, 1).
FracSumGeqHalves(r, d, s, e, k) ==
    IF k * e - 2 * s <= 0 THEN TRUE
    ELSE FracLeq(k * e - 2 * s, 2 * e, r, d)

\* Math.round((a + b) * 10) / 10 without forming a + b, whose numerator
\* can be beyond the integers at hand: 10a = i + r/d and 10b = j + s/e
\* give round(10 (a + b)) = i + j + floor(r/d + s/e + 1/2).
Round1Sum(a, b) ==
    LET x == QMul(a, QInt(10))
        y == QMul(b, QInt(10))
        r == x.n % x.d
        s == y.n % y.d
        c == IF FracSumGeqHalves(r, x.d, s, y.d, 3) THEN 2
             ELSE IF FracSumGeqHalves(r, x.d, s, y.d, 1) THEN 1
             ELSE 0
    IN  Q((x.n \div x.d) + (y.n \div y.d) + c, 10)

\* finalMonth?.mrr * 12 || 0: with no record finalMonth is undefined,
\* undefined * 12 is NaN and NaN || 0 is 0.
Arr(projections) ==
    IF Len(projections) = 0
    THEN 0
    ELSE LET finalMonth == projections[Len(projections)]
         IN  IF finalMonth.mrr * 12 # 0 THEN finalMonth.mrr * 12 ELSE 0

\* The zero-churn branch giving one month's payment instead of twelve.
Clv_OneMonth(avgMonthlyRevenue, churnRate) ==
    LET monthlyChurnRate == Q(churnRate, 100)
    IN  IF monthlyChurnRate.n > 0
        THEN QDiv(avgMonthlyRevenue, monthlyChurnRate)
        ELSE avgMonthlyRevenue

\* monthlyChurnRate > 0 ? avgMonthlyRevenue / monthlyChurnRate
\*                      : avgMonthlyRevenue * 12
Clv(avgMonthlyRevenue, churnRate) ==
    LET monthlyChurnRate == Q(churnRate, 100)
    IN  IF monthlyChurnRate.n > 0
        THEN QDiv(avgMonthlyRevenue, monthlyChurnRate)
        ELSE QMul(avgMonthlyRevenue, QInt(12))

\* avgMonthlyRevenue > 0 ? cac / avgMonthlyRevenue : 0
PaybackPeriod(avgMonthlyRevenue, cac) ==
    IF avgMonthlyRevenue.n > 0 THEN QDiv(QInt(cac), avgMonthlyRevenue) ELSE QZero

\* A cac of 0 giving the lifetime value itself.
LtvCacRatio_Unguarded(clv, cac) == IF cac > 0 THEN QDiv(clv, QInt(cac)) ELSE clv

\* cac > 0 ? clv / cac : 0
LtvCacRatio(clv, cac) == IF cac > 0 THEN QDiv(clv, QInt(cac)) ELSE QZero

\* retentionRate = 1 - monthlyChurnRate
RetentionRate(churnRate) == QSub(QInt(1), Q(churnRate, 100))

\* (retentionRate + (expansionRate / 100)) * 100
Nrr(churnRate, expansionRate) ==
    QMul(QAdd(RetentionRate(churnRate), Q(expansionRate, 100)), QInt(100))

\* retentionRate * 100
Grr(churnRate) == QMul(RetentionRate(churnRate), QInt(100))

\* firstMonth && finalMonth
\*   ? ((finalMonth.mrr - firstMonth.mrr) / firstMonth.mrr) * 100 / 60 * 12
\*   : 0
GrowthRate(projections) ==
    IF Len(projections) > 0
    THEN LET finalMonth == projections[Len(projections)]
             firstMonth == projections[1]
         IN  TScale(TDiv(QInt(finalMonth.mrr - firstMonth.mrr),
                         QInt(firstMonth.mrr)),
                    QMul(Q(100, 60), QInt(12)))
    ELSE TNum(QZero)

\* finalMonth && finalMonth.mrr > 0
\*   ? ((finalMonth.mrr - finalMonth.operatingCosts) / finalMonth.mrr) * 100
\*   : 0
ProfitMargin(projections) ==
    IF Len(projections) > 0 /\ projections[Len(projections)].mrr > 0
    THEN LET finalMonth == projections[Len(projections)]
         IN  QMul(Q(finalMonth.mrr - finalMonth.operatingCosts, finalMonth.mrr),
                  QInt(100))
    ELSE QZero

\* ruleOf40 = growthRate + profitMargin, returned as
\* Math.round(ruleOf40 * 10) / 10; NaN and the infinities of growthRate
\* are kept by the sum and by the rounding.
RuleOf40(projections) ==
    LET growthRate == GrowthRate(projections)
    IN  IF growthRate.k = "num"
        THEN TNum(Round1Sum(growthRate.q, ProfitMargin(projections)))
        ELSE growthRate

\* projections.findIndex(d => d.profit >= 0): the 0-based index of the
\* first such record, -1 when there is none.
FindIndexProfit(projections) ==
    IF \E i \in 1..Len(projections) : projections[i].profit >= 0
    THEN (CHOOSE i \in 1..Len(projections) :
              /\ projections[i].profit >= 0
              /\ \A j \in 1..(i - 1) : projections[j].profit < 0) - 1
    ELSE -1

\* breakEvenMonth > 0 ? breakEvenMonth : -1
BreakEvenMonth(projections) ==
    LET breakEvenMonth == FindIndexProfit(projections)
    IN  IF breakEvenMonth > 0 THEN breakEvenMonth ELSE -1

\* The payment rounded to one decimal instead of two.
AverageArpu_OneDecimal(avgMonthlyRevenue) == Round1(avgMonthlyRevenue)

\* const averageArpu = avgMonthlyRevenue, returned as
\* Math.round(averageArpu * 100) / 100
AverageArpu(avgMonthlyRevenue) ==
    Q(MathRound(QMul(avgMonthlyRevenue, QInt(100))), 100)

\* The BusinessMetrics returned.  avgMonthlyRevenue is a finite number,
\* whole or not.
CalculateBusinessMetrics(projections, avgMonthlyRevenue, churnRate, cac, expansionRate) ==
    LET arr == Arr(projections)
        clv == Clv(avgMonthlyRevenue, churnRate)
    IN  [ clv |-> MathRound(clv),
          arr |-> MathRound(QInt(arr)),
          valuation |-> MathRound(QInt(arr * 7)),
          paybackPeriod |-> Round1(PaybackPeriod(avgMonthlyRevenue, cac)),
          grossMargin |-> 80,
          ltvCacRatio |-> Round1(LtvCacRatio(clv, cac)),
          nrr |-> Round1(Nrr(churnRate, expansionRate)),
          grr |-> Round1(Grr(churnRate)),
          ruleOf40 |-> RuleOf40(projections),
          breakEvenMonth |-> BreakEvenMonth(projections),
          averageArpu |-> AverageArpu(avgMonthlyRevenue) ]

\* The metrics state of the component before the first computation.
NoMetrics ==
    [ clv |-> 0, arr |-> 0, valuation |-> 0, paybackPeriod |-> QZero,
      grossMargin |-> 80, ltvCacRatio |-> QZero, nrr |-> QZero, grr |-> QZero,
      ruleOf40 |-> TNum(QZero), breakEvenMonth |-> -1, averageArpu |-> QZero ]

\* CalculatorState as useState initialises it.  A plan of the state is
\* [id, price, probability] (its name is display text only).
InitialState ==
    [ targetIncome |-> 10000,
      avgMonthlyRevenue |-> 50,
      plans |-> <<>>,
      churnRate |-> 10,
      cac |-> 100,
      customersPerMonth |-> Null,
      expansionRevenue |-> 5,
      supportCostPerUser |-> 2,
      infrastructureCostPerUser |-> 3 ]

\* A direct call of calculateBusinessMetrics: its position ("idle" when
\* there is none, "called", "returned"), its arguments and its result.
NoDirectCall ==
    [ pc |-> "idle", projections |-> <<>>, avgMonthlyRevenue |-> QZero,
      churnRate |-> 0, cac |-> 0, expansionRate |-> 0, result |-> NoMetrics ]

\* ------------------------------------------------------------------ state

VARIABLES
    args,                     \* the arguments of the call
    pc,                       \* "loop", "returned", "done"
    month,
    customersNeededPerMonth,
    totalCustomers,
    activeCustomers,
    cumulativeRevenue,
    cumulativeNetRevenue,
    cumulativeProfit,
    previousMrr,
    churnedThisMonth,         \* the last iteration's consts
    baseMonthlyRevenue,
    expansionRevenueAmount,
    monthlyRevenue,
    data,
    metrics,
    direct,                   \* a direct call of calculateBusinessMetrics
    state,                    \* the component: CalculatorState
    projections,              \*   the projections state
    metricsState,             \*   the metrics state
    effectPending,            \*   the effect has to run for the current state
    now,                      \* the reading of Date.now()
    edits                     \* the edits made so far

locals ==
    << month, customersNeededPerMonth, totalCustomers, activeCustomers,
       cumulativeRevenue, cumulativeNetRevenue, cumulativeProfit, previousMrr,
       churnedThisMonth, baseMonthlyRevenue, expansionRevenueAmount,
       monthlyRevenue, data >>

callVars == << args, pc, locals, metrics >>

uiVars == << state, projections, metricsState, effectPending, now, edits >>

vars == << callVars, direct, uiVars >>

\* The component as mounted, its effect still to run.
Mounted ==
    /\ state = InitialState
    /\ projections = <<>>
    /\ metricsState = NoMetrics
    /\ effectPending = TRUE
    /\ now = 0
    /\ edits = 0

Locals ==
    [ customersNeededPerMonth |-> customersNeededPerMonth,
      totalCustomers |-> totalCustomers,
      activeCustomers |-> activeCustomers,
      cumulativeRevenue |-> cumulativeRevenue,
      cumulativeNetRevenue |-> cumulativeNetRevenue,
      cumulativeProfit |-> cumulativeProfit,
      previousMrr |-> previousMrr,
      churnedThisMonth |-> churnedThisMonth,
      baseMonthlyRevenue |-> baseMonthlyRevenue,
      expansionRevenueAmount |-> expansionRevenueAmount,
      monthlyRevenue |-> monthlyRevenue,
      data |-> data,
      month |-> month ]

SetLocals(s) ==
    /\ month' = s.month
    /\ customersNeededPerMonth' = s.customersNeededPerMonth
    /\ totalCustomers' = s.totalCustomers
    /\ activeCustomers' = s.activeCustomers
    /\ cumulativeRevenue' = s.cumulativeRevenue
    /\ cumulativeNetRevenue' = s.cumulativeNetRevenue
    /\ cumulativeProfit' = s.cumulativeProfit
    /\ previousMrr' = s.previousMrr
    /\ churnedThisMonth' = s.churnedThisMonth
    /\ baseMonthlyRevenue' = s.baseMonthlyRevenue
    /\ expansionRevenueAmount' = s.expansionRevenueAmount
    /\ monthlyRevenue' = s.monthlyRevenue
    /\ data' = s.data

\* calculateProjections is entered with arguments drawn from Configs and
\* has reached its loop.
Init ==
    /\ args \in Configs
    /\ pc = "loop"
    /\ LET s == EntryLocals(args)
       IN  /\ month = s.month
           /\ customersNeededPerMonth = s.customersNeededPerMonth
           /\ totalCustomers = s.totalCustomers
           /\ activeCustomers = s.activeCustomers
           /\ cumulativeRevenue = s.cumulativeRevenue
           /\ cumulativeNetRevenue = s.cumulativeNetRevenue
           /\ cumulativeProfit = s.cumulativeProfit
           /\ previousMrr = s.previousMrr
           /\ churnedThisMonth = s.churnedThisMonth
           /\ baseMonthlyRevenue = s.baseMonthlyRevenue
           /\ expansionRevenueAmount = s.expansionRevenueAmount
           /\ monthlyRevenue = s.monthlyRevenue
           /\ data = s.data
    /\ metrics = NoMetrics
    /\ direct = NoDirectCall
    /\ Mounted

\* One iteration of the loop.
Iterate ==
    /\ pc = "loop"
    /\ LoopCond(month, args.months)
    /\ month <= MaxMonths
    /\ SetLocals(LoopBody(args, Locals))
    /\ UNCHANGED << args, pc, metrics, direct, uiVars >>

\* The loop test fails: return data.
Return ==
    /\ pc = "loop"
    /\ ~LoopCond(month, args.months)
    /\ pc' = "returned"
    /\ UNCHANGED << args, locals, metrics, direct, uiVars >>

\* calculateBusinessMetrics on the records returned, as the effect calls it.
Metrics ==
    /\ pc = "returned"
    /\ metrics' = CalculateBusinessMetrics(data, QInt(args.avgMonthlyRevenue),
                      args.churnRate, args.cac, args.expansionRate)
    /\ pc' = "done"
    /\ UNCHANGED << args, locals, direct, uiVars >>

Next == Iterate \/ Return \/ Metrics

Spec == Init /\ [][Next]_vars

\* ------------------------------- calculateBusinessMetrics called directly

\* The call variables when no call of calculateProjections is followed.
NoCall ==
    /\ args = DefaultState
    /\ pc = "idle"
    /\ LET s == EntryLocals(args)
       IN  /\ month = s.month
           /\ customersNeededPerMonth = s.customersNeededPerMonth
           /\ totalCustomers = s.totalCustomers
           /\ activeCustomers = s.activeCustomers
           /\ cumulativeRevenue = s.cumulativeRevenue
           /\ cumulativeNetRevenue = s.cumulativeNetRevenue
           /\ cumulativeProfit = s.cumulativeProfit
           /\ previousMrr = s.previousMrr
           /\ churnedThisMonth = s.churnedThisMonth
           /\ baseMonthlyRevenue = s.baseMonthlyRevenue
           /\ expansionRevenueAmount = s.expansionRevenueAmount
           /\ monthlyRevenue = s.monthlyRevenue
           /\ data = s.data
    /\ metrics = NoMetrics

\* The projections a direct call is given: none, or two months of a
\* small configuration.
DirectProjections ==
    { <<>>,
      CalculateProjections([DefaultState EXCEPT !.targetIncome = 100,
                                                !.months = 2]) }

\* calculateBusinessMetrics(projections, avgMonthlyRevenue, churnRate, cac,
\* expansionRate) is called with a payment that need not be whole.
InitDirect ==
    /\ NoCall
    /\ Mounted
    /\ \E p \in DirectProjections, k \in 0..MaxMilli,
          c \in {0, 10}, a \in {0, 100} :
           direct = [ pc |-> "called", projections |-> p,
                      avgMonthlyRevenue |-> Q(k, 1000), churnRate |-> c,
                      cac |-> a, expansionRate |-> 5, result |-> NoMetrics ]

\* The call returns its BusinessMetrics.
DirectReturn ==
    /\ direct.pc = "called"
    /\ direct' = [direct EXCEPT
                     !.pc = "returned",
                     !.result = CalculateBusinessMetrics(direct.projections,
                                    direct.avgMonthlyRevenue, direct.churnRate,
                                    direct.cac, direct.expansionRate)]
    /\ UNCHANGED << callVars, uiVars >>

NextDirect == DirectReturn

SpecDirect == InitDirect /\ [][NextDirect]_vars

\* ---------------------------------------------------------- SaaSCalculator

\* The arguments the effect passes to calculateProjections: the fields of
\* the state, months left to its default.
EffectArgs(st) ==
    [ targetIncome |-> st.targetIncome,
      avgMonthlyRevenue |-> st.avgMonthlyRevenue,
      plans |-> st.plans,
      churnRate |-> st.churnRate,
      cac |-> st.cac,
      expansionRate |-> st.expansionRevenue,
      supportCost |-> st.supportCostPerUser,
      infraCost |-> st.infrastructureCostPerUser,
      customersPerMonth |-> st.customersPerMonth,
      months |-> DefaultMonths ]

\* The effect rerunning only when the plans differ.
DepsChanged_PlansOnly(old, new) == old.plans # new.plans

\* useEffect(..., [state]): the dependency is compared by identity, and
\* every handler gives setState a fresh object, equal in content or not.
DepsChanged(old, new) == TRUE

\* setState(next) in an event handler.  Handlers run between renders, the
\* effect of the last render done.
SetState(next) ==
    /\ ~effectPending
    /\ edits < MaxEdits
    /\ state' = next
    /\ effectPending' = DepsChanged(state, next)
    /\ edits' = edits + 1
    /\ UNCHANGED << projections, metricsState, now, callVars, direct >>

\* The effect: calculateProjections, setProjections,
\* calculateBusinessMetrics on the new data, setMetrics.
RunEffect ==
    /\ effectPending
    /\ LET projData == CalculateProjections(EffectArgs(state))
       IN  /\ projections' = projData
           /\ metricsState' = CalculateBusinessMetrics(projData,
                                  QInt(state.avgMonthlyRevenue), state.churnRate,
                                  state.cac, state.expansionRevenue)
    /\ effectPending' = FALSE
    /\ UNCHANGED << state, now, edits, callVars, direct >>

\* The range sliders (the browser keeps a range input within min..max).
SetTargetIncome ==
    \E v \in {1000, 2000} : SetState([state EXCEPT !.targetIncome = v])

SetAvgMonthlyRevenue ==
    \E v \in {10, 50} : SetState([state EXCEPT !.avgMonthlyRevenue = v])

\* The CAC slider also putting the expansion and the two cost fields at 0.
SetCac_DropsCosts ==
    \E v \in {0, 100} :
        SetState([state EXCEPT !.cac = v, !.expansionRevenue = 0,
                               !.supportCostPerUser = 0,
                               !.infrastructureCostPerUser = 0])

SetCac ==
    \E v \in {0, 100} : SetState([state EXCEPT !.cac = v])

\* Customers Per Month: Auto (shown when a number is set), Enable (shown
\* when it is null), and the slider 1..500 (shown when a number is set).
CustomersAuto ==
    /\ state.customersPerMonth # Null
    /\ SetState([state EXCEPT !.customersPerMonth = Null])

CustomersEnable ==
    /\ state.customersPerMonth = Null
    /\ SetState([state EXCEPT !.customersPerMonth = Some(50)])

CustomersSlider ==
    /\ state.customersPerMonth # Null
    /\ \E v \in {1, 500} :
           SetState([state EXCEPT !.customersPerMonth = Some(v)])

\* ChurnSelector: one of the three maturity levels.
SetChurnRate ==
    \E v \in {5, 10, 25} : SetState([state EXCEPT !.churnRate = v])

\* addPlan: a plan with id Date.now(), no name, price 0, probability 0.
AddPlan ==
    /\ Len(state.plans) < MaxPlans
    /\ SetState([state EXCEPT !.plans =
           Append(@, [id |-> now, name |-> "", price |-> 0, probability |-> 0])])

\* plans.map(p => p.id === id ? { ...p, [field]: value } : p)
UpdatedPlans(plans, id, field, value) ==
    [ i \in 1..Len(plans) |->
        IF plans[i].id = id THEN [plans[i] EXCEPT ![field] = value]
        ELSE plans[i] ]

\* updatePlan from the inputs of one plan row: the text typed for the
\* name, Number(e.target.value) for price and probability (min and max of
\* a number input do not stop a typed value).
UpdatePlan ==
    \E i \in 1..Len(state.plans) :
        \/ \E v \in {"Pro"} :
               SetState([state EXCEPT !.plans =
                   UpdatedPlans(@, state.plans[i].id, "name", v)])
        \/ \E v \in {20, -5} :
               SetState([state EXCEPT !.plans =
                   UpdatedPlans(@, state.plans[i].id, "price", v)])
        \/ \E v \in {50, -10} :
               SetState([state EXCEPT !.plans =
                   UpdatedPlans(@, state.plans[i].id, "probability", v)])

\* plans.filter(p => p.id !== id)
RECURSIVE FilteredPlans(_, _)
FilteredPlans(plans, id) ==
    IF plans = <<>> THEN <<>>
    ELSE IF plans[1].id # id
         THEN <<plans[1]>> \o FilteredPlans(Tail(plans), id)
         ELSE FilteredPlans(Tail(plans), id)

\* removePlan from the Remove button of one plan row.
RemovePlan ==
    \E i \in 1..Len(state.plans) :
        SetState([state EXCEPT !.plans = FilteredPlans(@, state.plans[i].id)])

\* Time passes: Date.now() reads a later millisecond.
Tick ==
    /\ now < MaxClock
    /\ now' = now + 1
    /\ UNCHANGED << state, projections, metricsState, effectPending, edits,
                    callVars, direct >>

InitUI ==
    /\ NoCall
    /\ direct = NoDirectCall
    /\ Mounted

NextUI ==
    \/ RunEffect
    \/ SetTargetIncome
    \/ SetAvgMonthlyRevenue
    \/ SetCac
    \/ CustomersAuto
    \/ CustomersEnable
    \/ CustomersSlider
    \/ SetChurnRate
    \/ AddPlan
    \/ UpdatePlan
    \/ RemovePlan
    \/ Tick

SpecUI == InitUI /\ [][NextUI]_vars

\* ----------------------------------------------------------------- claims

\* The customers churned in the first m records of d.
RECURSIVE SumChurned(_, _)
SumChurned(d, m) ==
    IF m = 0 THEN 0 ELSE SumChurned(d, m - 1) + d[m].churnedCustomers

\* The pool churn is taken from in month i: every customer acquired so far
\* less those churned in the months before.
PoolAt(d, i) == d[i].customers - SumChurned(d, i - 1)

\* C1: a call with horizon h >= 1 returns exactly h records, and their
\* month fields are 1, 2, ..., h in that order.
C1_RecordsAreMonths1ToH ==
    /\ \A i \in 1..Len(data) : data[i].month = i
    /\ pc # "loop" => Len(data) = args.months

C1_Witness ==
    pc = "returned" /\ args.months = MaxMonths /\ Len(data) = MaxMonths

\* C2: for a churn rate in [0, 100] and a non-negative acquisition volume
\* the running activeCustomers is never negative, and the customers churned
\* in a month never exceed the pool they are taken from.
C2_ActiveNeverNegative ==
    (args.churnRate \in 0..100 /\ customersNeededPerMonth >= 0) =>
        /\ activeCustomers >= 0
        /\ \A i \in 1..Len(data) :
               /\ data[i].churnedCustomers >= 0
               /\ data[i].churnedCustomers <= PoolAt(data, i)

C2_Witness ==
    /\ args.churnRate = 100
    /\ Len(data) >= 2
    /\ churnedThisMonth > 0
    /\ activeCustomers = 0

\* C3: a break-even month other than -1 is the month field of a record with
\* cumulative profit >= 0, every earlier record other than month 1 has
\* cumulative profit < 0, and -1 is returned when no record has cumulative
\* profit >= 0.
C3_BreakEvenRecord ==
    pc = "done" =>
        /\ metrics.breakEvenMonth # -1 =>
               /\ \E i \in 1..Len(data) :
                      data[i].month = metrics.breakEvenMonth /\ data[i].profit >= 0
               /\ \A i \in 1..Len(data) :
                      (data[i].month < metrics.breakEvenMonth /\ data[i].month # 1)
                          => data[i].profit < 0
        /\ (\A i \in 1..Len(data) : data[i].profit < 0) =>
               metrics.breakEvenMonth = -1

\* C4: when the first record's mrr is 0 the growth rate is taken as 0, so
\* ruleOf40 is the (finite) profit margin alone, rounded to one decimal.
C4_RuleOf40FiniteOnZeroMrr ==
    (pc = "done" /\ data[1].mrr = 0) =>
        metrics.ruleOf40 = TNum(Round1(ProfitMargin(data)))

\* C5: with the default state (target 10000, payment 50, no plans, churn
\* 10, cac 100, expansion 5, support 2, infrastructure 3, no override,
\* horizon 60) the acquisition volume is 200 and the month-1 record has
\* customers 200, churned 20, mrr 9000, expansion 0, operating costs 20900
\* and profit -11900.
C5_DefaultMonth1 ==
    (args = DefaultState /\ Len(data) >= 1) =>
        /\ customersNeededPerMonth = 200
        /\ data[1].month = 1
        /\ data[1].customers = 200
        /\ data[1].churnedCustomers = 20
        /\ data[1].mrr = 9000
        /\ data[1].expansionRevenue = 0
        /\ data[1].operatingCosts = 20900
        /\ data[1].profit = -11900

C5_Witness == args = DefaultState /\ Len(data) = 1 /\ month = 2

\* The least whole number of customers whose payments reach the target,
\* for a payment > 0.
LeastCover(targetIncome, avgMonthlyRevenue) ==
    CHOOSE k \in 0..targetIncome :
        /\ k * avgMonthlyRevenue >= targetIncome
        /\ (k - 1) * avgMonthlyRevenue < targetIncome

\* The acquisition volume of a call: the override if given, else
\* ceil(targetIncome / avgMonthlyRevenue), else 0.
ExpectedVolume(a) ==
    IF a.customersPerMonth # Null THEN a.customersPerMonth[1]
    ELSE IF a.avgMonthlyRevenue > 0
         THEN LeastCover(a.targetIncome, a.avgMonthlyRevenue)
         ELSE 0

\* C6: the acquisition volume is fixed before the loop and the same in
\* every month: the customers field of the record of month m is m times
\* the volume (the override, else ceil(targetIncome / avgMonthlyRevenue),
\* else 0).
C6_CustomersIsMonthTimesVolume ==
    /\ customersNeededPerMonth = ExpectedVolume(args)
    /\ \A m \in 1..Len(data) : data[m].customers = m * ExpectedVolume(args)

C6_Witness ==
    /\ args.customersPerMonth = Null
    /\ args.avgMonthlyRevenue = 30
    /\ args.targetIncome = 100
    /\ Len(data) = MaxMonths
    /\ data[MaxMonths].customers = 4 * MaxMonths

\* C7: with avgMonthlyRevenue = 0 and no override the acquisition volume
\* is 0 and every record has revenue, mrr, netRevenue and expansionRevenue
\* 0, whatever the plans and the other arguments (no operation of the loop
\* can throw, so such a call returns all its records).
C7_ZeroPaymentGivesZeros ==
    (args.avgMonthlyRevenue = 0 /\ args.customersPerMonth = Null) =>
        /\ customersNeededPerMonth = 0
        /\ \A m \in 1..Len(data) :
               /\ data[m].revenue = 0
               /\ data[m].mrr = 0
               /\ data[m].netRevenue = 0
               /\ data[m].expansionRevenue = 0

C7_Witness ==
    /\ args.avgMonthlyRevenue = 0
    /\ args.customersPerMonth = Null
    /\ args.plans = << Plan(20, 50), Plan(100, 50) >>
    /\ args.cac = 100
    /\ pc = "returned"
    /\ Len(data) = MaxMonths

\* The sum over the plans of price * probability.
RECURSIVE WeightedPriceSum(_)
WeightedPriceSum(plans) ==
    IF plans = <<>> THEN 0
    ELSE plans[1].price * plans[1].probability + WeightedPriceSum(Tail(plans))

RECURSIVE ProbabilitySum(_)
ProbabilitySum(plans) ==
    IF plans = <<>> THEN 0
    ELSE plans[1].probability + ProbabilitySum(Tail(plans))

\* The pool left after the acquisition and the churn of the last month
\* recorded in d.
ActiveAfter(d) == d[Len(d)].customers - SumChurned(d, Len(d))

\* C8: with plans whose probabilities sum to 100, the base revenue of
\* every month is (sum of price * probability / 100) * activeCustomers,
\* activeCustomers being the pool after that month's churn;
\* avgMonthlyRevenue does not contribute.
C8_TieredBaseRevenue ==
    (args.plans # <<>> /\ ProbabilitySum(args.plans) = 100 /\ Len(data) >= 1) =>
        /\ activeCustomers = ActiveAfter(data)
        /\ baseMonthlyRevenue =
               Q(WeightedPriceSum(args.plans) * ActiveAfter(data), 100)

C8_Witness ==
    /\ args.plans = << Plan(10, 70), Plan(30, 20), Plan(100, 10) >>
    /\ args.avgMonthlyRevenue = 50
    /\ args.churnRate = 25
    /\ Len(data) >= 2
    /\ churnedThisMonth > 0
    /\ baseMonthlyRevenue = QInt(23 * activeCustomers)
    /\ activeCustomers > 0

\* C9: with plans whose probabilities sum to 0 nothing is divided by zero:
\* the base revenue is 0 in every month, and so are mrr, revenue and
\* expansionRevenue, whatever the prices, avgMonthlyRevenue and the number
\* of active customers.
C9_ZeroProbabilityGivesZero ==
    (args.plans # <<>> /\ ProbabilitySum(args.plans) = 0) =>
        /\ baseMonthlyRevenue = QZero
        /\ \A m \in 1..Len(data) :
               /\ data[m].mrr = 0
               /\ data[m].revenue = 0
               /\ data[m].expansionRevenue = 0

C9_Witness ==
    /\ args.plans = << Plan(49, 0), Plan(99, 0) >>
    /\ args.avgMonthlyRevenue = 50
    /\ args.expansionRate = 5
    /\ activeCustomers > 0
    /\ Len(data) >= 2

\* C10: with no plans, the base revenue of every month (the month's
\* gross revenue less its expansion contribution, unrounded) is
\* activeCustomers * avgMonthlyRevenue, activeCustomers being the pool left
\* after that month's acquisition and churn.
C10_FlatBaseRevenue ==
    (args.plans = <<>> /\ Len(data) >= 1) =>
        /\ activeCustomers = ActiveAfter(data)
        /\ QSub(monthlyRevenue, expansionRevenueAmount) =
               QInt(ActiveAfter(data) * args.avgMonthlyRevenue)

C10_Witness ==
    /\ args.plans = <<>>
    /\ args.avgMonthlyRevenue = 30
    /\ args.expansionRate = 5
    /\ Len(data) >= 2
    /\ churnedThisMonth > 0
    /\ expansionRevenueAmount.n > 0
    /\ activeCustomers > 0

\* C11: the expansion contribution of a month is the unrounded gross
\* revenue of the month before times expansionRate / 100, the revenue
\* before the first month being 0; so the expansionRevenue field of the
\* month-1 record is 0 for every configuration.
C11_ExpansionFromPreviousMonth ==
    /\ [](Len(data) >= 1 => data[1].expansionRevenue = 0)
    /\ [][month' = month + 1 =>
              /\ expansionRevenueAmount' =
                     QMul(IF month = 1 THEN QZero ELSE monthlyRevenue,
                          Q(args.expansionRate, 100))
              /\ data'[month].expansionRevenue =
                     MathRound(expansionRevenueAmount')]_vars

C11_Witness ==
    /\ args.expansionRate = 5
    /\ Len(data) >= 2
    /\ expansionRevenueAmount.n > 0
    /\ data[Len(data)].expansionRevenue > 0
    /\ data[1].mrr > 0

C13_ZeroCacRatios ==
    (pc = "done" /\ args.cac = 0) =>
        /\ metrics.ltvCacRatio = QZero
        /\ metrics.paybackPeriod = QZero

C13_Witness ==
    /\ pc = "done"
    /\ args.cac = 0
    /\ args.avgMonthlyRevenue = 50
    /\ args.churnRate = 10
    /\ metrics.clv = 500


\* The payment of the direct call in thousandths.
DirectMilli == (direct.avgMonthlyRevenue.n * 1000) \div direct.avgMonthlyRevenue.d

\* C15 (as the code has it): the averageArpu returned by
\* calculateBusinessMetrics is the avgMonthlyRevenue argument rounded to the
\* nearest hundredth, a half rounding up: it is h/100 for the h with
\* 10h - 5 <= 1000 * avgMonthlyRevenue < 10h + 5, and so the argument
\* unchanged whenever that is a whole number of hundredths.
C15_AverageArpuIsHundredths ==
    direct.pc = "returned" =>
        /\ \E h \in 0..MaxMilli :
               /\ 10 * h - 5 <= DirectMilli
               /\ DirectMilli < 10 * h + 5
               /\ direct.result.averageArpu = Q(h, 100)
        /\ DirectMilli % 10 = 0 =>
               direct.result.averageArpu = direct.avgMonthlyRevenue

\* A payment of 0.005 came back as 0.01.
C15_Witness ==
    /\ direct.pc = "returned"
    /\ direct.avgMonthlyRevenue = Q(5, 1000)
    /\ direct.result.averageArpu = Q(1, 100)

\* C15 as stated: averageArpu is the argument unchanged, whatever its value.
C15_AverageArpuUnchanged ==
    direct.pc = "returned" =>
        direct.result.averageArpu = direct.avgMonthlyRevenue


\* The "Active Customers / At month 60" card: finalMonth?.customers || 0
ActiveCustomersCard(d) == IF Len(d) = 0 THEN 0 ELSE d[Len(d)].customers

\* C16: the Active Customers card shows the active customer count of the
\* last month, the customers acquired so far less the customers churned so
\* far.  The card shows the customers field, which is totalCustomers.
C16_CardShowsActiveCustomers ==
    pc = "returned" =>
        /\ ActiveCustomersCard(data) = activeCustomers
        /\ ActiveCustomersCard(data) = ActiveAfter(data)

\* projections.findIndex(d => d.mrr >= state.targetIncome)
MonthsToTarget(d, targetIncome) ==
    IF \E i \in 1..Len(d) : d[i].mrr >= targetIncome
    THEN (CHOOSE i \in 1..Len(d) :
              /\ d[i].mrr >= targetIncome
              /\ \A j \in 1..(i - 1) : d[j].mrr < targetIncome) - 1
    ELSE -1

\* The "Time to Target" card: monthsToTarget > 0 ? `${monthsToTarget} mo`
\* : 'N/A'.  Some(n) is "n mo", Null is 'N/A'.
TimeToTargetCard(d, targetIncome) ==
    LET monthsToTarget == MonthsToTarget(d, targetIncome)
    IN  IF monthsToTarget > 0 THEN Some(monthsToTarget) ELSE Null

\* C17: the Time to Target card shows the month field of the first record
\* whose mrr reaches targetIncome, and 'N/A' only when no record does.
C17_CardShowsMonthOfTarget ==
    pc = "returned" =>
        LET reached == { i \in 1..Len(data) : data[i].mrr >= args.targetIncome }
        IN  TimeToTargetCard(data, args.targetIncome) =
                IF reached = {}
                THEN Null
                ELSE Some(data[CHOOSE i \in reached :
                                   \A j \in reached : i <= j].month)


\* C20: the annualized growth rate divides by the horizon of the projection:
\* for the h records of a call with months = h and a non-zero first mrr it
\* is ((final.mrr - first.mrr) / first.mrr) * 100 / h * 12.
C20_GrowthRateUsesHorizon ==
    (pc = "returned" /\ data[1].mrr # 0) =>
        LET h == args.months
            first == data[1]
            final == data[Len(data)]
        IN  GrowthRate(data) =
                TNum(QMul(QMul(Q(final.mrr - first.mrr, first.mrr), QInt(100)),
                          Q(12, h)))


\* C18: once the effect for the latest edit has run, the stored projections
\* are calculateProjections of the current configuration and the stored
\* metrics are calculateBusinessMetrics of those projections and the
\* current configuration, whatever edits came before.
C18_ResultsFollowConfiguration ==
    ~effectPending =>
        /\ projections = CalculateProjections(EffectArgs(state))
        /\ metricsState = CalculateBusinessMetrics(projections,
                              QInt(state.avgMonthlyRevenue), state.churnRate,
                              state.cac, state.expansionRevenue)

\* Three edits made, the last one recomputed, and the results are not the
\* opening screen's.
C18_Witness ==
    /\ ~effectPending
    /\ edits = MaxEdits
    /\ state.avgMonthlyRevenue = 10
    /\ state.churnRate = 25
    /\ Len(projections) >= 1
    /\ projections # CalculateProjections(EffectArgs(InitialState))
    /\ metricsState.clv = 40

\* C19: the configuration the effect passes to calculateProjections is
\* within the ranges: churnRate in 0..100, cac >= 0, avgMonthlyRevenue > 0,
\* customersPerMonth null or a positive integer, every plan with
\* price >= 0 and probability >= 0.
C19_ConfigurationInRange ==
    effectPending =>
        LET a == EffectArgs(state)
        IN  /\ a.churnRate \in 0..100
            /\ a.cac >= 0
            /\ a.avgMonthlyRevenue > 0
            /\ a.customersPerMonth # Null => a.customersPerMonth[1] > 0
            /\ \A i \in 1..Len(a.plans) :
                   a.plans[i].price >= 0 /\ a.plans[i].probability >= 0


\* The active customers after month i, from the records: those acquired
\* less those churned.
ActiveAt(d, i) == d[i].customers - SumChurned(d, i)

\* The unrounded gross revenue of month i recomputed from the records'
\* customer counts: the base revenue of the month's active customers plus
\* the expansion rate applied to the unrounded revenue of month i - 1.
RECURSIVE UnroundedMrr(_, _, _)
UnroundedMrr(a, d, i) ==
    IF i = 0 THEN QZero
    ELSE QAdd(BaseMonthlyRevenue(a.plans, a.avgMonthlyRevenue, ActiveAt(d, i)),
              QMul(UnroundedMrr(a, d, i - 1), Q(a.expansionRate, 100)))

RECURSIVE SumUnroundedMrr(_, _, _)
SumUnroundedMrr(a, d, m) ==
    IF m = 0 THEN QZero
    ELSE QAdd(SumUnroundedMrr(a, d, m - 1), UnroundedMrr(a, d, m))

RECURSIVE SumOperatingCosts(_, _)
SumOperatingCosts(d, m) ==
    IF m = 0 THEN 0 ELSE SumOperatingCosts(d, m - 1) + d[m].operatingCosts

RECURSIVE SumMrrFields(_, _)
SumMrrFields(d, m) == IF m = 0 THEN 0 ELSE SumMrrFields(d, m - 1) + d[m].mrr

\* C21: rounding happens only when a record is emitted.  The revenue,
\* netRevenue and profit fields of month m are the rounding of the sums of
\* the unrounded monthly values of months 1..m, and the expansionRevenue
\* field of month m is the rounding of the expansion rate applied to the
\* unrounded gross revenue of month m - 1.
C21_RoundingAtEmissionOnly ==
    \A m \in 1..Len(data) :
        LET total == SumUnroundedMrr(args, data, m)
            acquisitionCost == data[1].customers * args.cac
        IN  /\ data[m].revenue = MathRound(total)
            /\ data[m].netRevenue =
                   MathRound(QSub(total, QInt(m * acquisitionCost)))
            /\ data[m].profit =
                   MathRound(QSub(total, QInt(SumOperatingCosts(data, m))))
            /\ data[m].mrr = MathRound(UnroundedMrr(args, data, m))
            /\ data[m].expansionRevenue =
                   MathRound(QMul(UnroundedMrr(args, data, m - 1),
                                  Q(args.expansionRate, 100)))

\* A call with expansion whose monthly revenue is not whole and whose
\* cumulative revenue is not the sum of the rounded mrr fields.
C21_Witness ==
    /\ Len(data) >= 2
    /\ args.expansionRate > 0
    /\ monthlyRevenue.d > 1
    /\ expansionRevenueAmount.d > 1
    /\ data[Len(data)].revenue # SumMrrFields(data, Len(data))


\* C22: customers are conserved.  After every month m the customers
\* acquired so far (the customers field) are the running active count plus
\* the customers churned in months 1..m, and the churn of each month is
\* between 0 and the pool after that month's acquisition.
C22_CustomersConserved ==
    /\ Len(data) >= 1 =>
           data[Len(data)].customers =
               activeCustomers + SumChurned(data, Len(data))
    /\ totalCustomers = activeCustomers + SumChurned(data, Len(data))
    /\ \A i \in 1..Len(data) :
           /\ data[i].churnedCustomers >= 0
           /\ data[i].churnedCustomers <= PoolAt(data, i)

\* Two months with churn in each, and customers still active.
C22_Witness ==
    /\ Len(data) >= 2
    /\ data[1].churnedCustomers > 0
    /\ data[2].churnedCustomers > data[1].churnedCustomers
    /\ activeCustomers > 0
    /\ data[2].customers = activeCustomers + SumChurned(data, 2)


\* The plans with the plan at position i taken out.
RemoveAt(plans, i) == SubSeq(plans, 1, i - 1) \o SubSeq(plans, i + 1, Len(plans))

\* C23: a step that changes the plans adds one plan at the end, removes
\* exactly the plan of one row and leaves the others as they were, or
\* changes the plan of exactly one row; so also for plans added at the
\* same reading of the clock.
C23_PlanEditsTouchOnePlan ==
    [][state'.plans # state.plans =>
         \/ /\ Len(state'.plans) = Len(state.plans) + 1
            /\ SubSeq(state'.plans, 1, Len(state.plans)) = state.plans
         \/ \E i \in 1..Len(state.plans) :
                state'.plans = RemoveAt(state.plans, i)
         \/ /\ Len(state'.plans) = Len(state.plans)
            /\ \E i \in 1..Len(state.plans) :
                   \A j \in 1..Len(state.plans) :
                       j # i => state'.plans[j] = state.plans[j]]_vars


\* The fields of the configuration that a step changes.
ChangedFields == { f \in DOMAIN state : state'[f] # state[f] }

\* C24: no action of the interface changes expansionRevenue,
\* supportCostPerUser or infrastructureCostPerUser, which stay 5, 2 and 3
\* after any sequence of edits, and each edit changes only the field of
\* the configuration it targets.
C24_EditsChangeOnlyTheirField ==
    /\ [](/\ state.expansionRevenue = 5
          /\ state.supportCostPerUser = 2
          /\ state.infrastructureCostPerUser = 3)
    /\ [][/\ SetTargetIncome => ChangedFields \subseteq {"targetIncome"}
          /\ SetAvgMonthlyRevenue => ChangedFields \subseteq {"avgMonthlyRevenue"}
          /\ SetCac => ChangedFields \subseteq {"cac"}
          /\ (CustomersAuto \/ CustomersEnable \/ CustomersSlider) =>
                 ChangedFields \subseteq {"customersPerMonth"}
          /\ SetChurnRate => ChangedFields \subseteq {"churnRate"}
          /\ (AddPlan \/ UpdatePlan \/ RemovePlan) =>
                 ChangedFields \subseteq {"plans"}
          /\ (RunEffect \/ Tick) => ChangedFields = {}]_vars

\* Four edits made, of the target, the payment, the CAC and the plans, and
\* the three fields without a control as they were.
C24_Witness ==
    /\ edits = MaxEdits
    /\ state.targetIncome = 2000
    /\ state.avgMonthlyRevenue = 10
    /\ state.cac = 0
    /\ Len(state.plans) = 1
    /\ state.expansionRevenue = 5
    /\ state.supportCostPerUser = 2
    /\ state.infrastructureCostPerUser = 3

====
